---- MODULE Spec2Model ----
(***************************************************************************)
(* Model of bimap.BiMap[int, int] (src/bimap.go): a bidirectional map made *)
(* of a front map T -> U and a back map U -> T behind one RWMutex.         *)
(*                                                                         *)
(* Specification Spec is the sequential view: every method call is one     *)
(* step, taken while the method holds the lock (Lock/defer Unlock around   *)
(* the whole body), and the step records the call, its result and the maps *)
(* it started from.                                                        *)
(*                                                                         *)
(* CopySpec adds Front() and Back() and a caller that writes to the map it *)
(* was returned.  LockSpec is the concurrent view: goroutines call the     *)
(* methods, each call takes the lock, runs its body (a write in two map    *)
(* updates) and releases the lock.  VisitReadSpec and VisitWriteSpec add   *)
(* For with a visitor that calls a read, resp. a write, method of the same *)
(* map.                                                                    *)
(***************************************************************************)
EXTENDS Integers, FiniteSets, TLC

\* Bounds of the model: keys are the integers 0..MaxFront (type T) and
\* 0..MaxBack (type U).  0 is Go's zero value of int and is a legal key.
MaxFront == 2
MaxBack == 2

\* Bound of the specifications that follow a returned copy or concurrent
\* callers: there the arguments of the calls are taken from 0..MaxKey.
MaxKey == 1

\* Bound: the number of goroutines that call the methods concurrently.
NumProcs == 2

FrontKeys == 0 .. MaxFront
BackKeys == 0 .. MaxBack
Keys == 0 .. MaxKey
Procs == 1 .. NumProcs

\* No goroutine: the owner of an unlocked mutex.
NoProc == 0

\* The zero value returned by a map index expression for an absent key.
Zero == 0

VARIABLES
    front,  \* m.front : map[T]U, a function on the set of its keys
    back,   \* m.back  : map[U]T
    call,   \* the last call made: [op, args]
    ret,    \* what that call returned
    old,    \* m.front and m.back when that call was made
    nm,     \* the map a caller got from Front() or Back(): the object its
            \* variable refers to, and the content of the object nm
    rwLock, \* m.rwLock : sync.RWMutex
    pc,     \* per goroutine: where it stands in the method it is calling
    frame,  \* per goroutine: the locals of the method body it is running
    loop    \* per goroutine: the state of the range loop of For

seqVars == <<call, ret, old, nm>>
callers == <<rwLock, pc, frame, loop>>
vars == <<front, back, call, ret, old, nm, rwLock, pc, frame, loop>>

----------------------------------------------------------------------------
\* Go map primitives.

\* make(map[K]V)
EmptyMap == [x \in {} |-> Zero]

\* v, ok := m[k]
Index(m, k) == IF k \in DOMAIN m THEN <<m[k], TRUE>> ELSE <<Zero, FALSE>>

\* m[k] = v
Put(m, k, v) == [x \in (DOMAIN m) \cup {k} |-> IF x = k THEN v ELSE m[x]]

\* delete(m, k)
Delete(m, k) == [x \in (DOMAIN m) \ {k} |-> m[x]]

\* All map[K]V values over the model's keys.
Maps(K, V) == UNION {[D -> V] : D \in SUBSET K}

ErrKeyValExists == "key or value exists"
Nil == "nil"
NoResult == "no result"

----------------------------------------------------------------------------
\* Construction.

\* WithInitialMap(m): the type conversion initialOption[T, U](m).
WithInitialMap(m) == m

\* The argument lists New is called with: no option, or one initial map.
OptionLists == {<<>>} \cup {<<WithInitialMap(m)>> : m \in Maps(FrontKeys, BackKeys)}

\* New(...option[T, U]): the variadic parameter is unnamed and the body never
\* applies it; the result is always the pair of empty maps.
New(options) == [front |-> EmptyMap, back |-> EmptyMap]

\* A caller that has not called Front() or Back() holds no map.
NoMap == [ref |-> "nil", val |-> EmptyMap]

\* The zero value of sync.RWMutex: unlocked.
\*   w           the goroutine holding the writers' mutex rw.w
\*   readerCount RLock calls not yet matched by RUnlock (Go subtracts
\*               rwmutexMaxReaders from the field while a writer is pending;
\*               here "a writer is pending" is w # NoProc)
\*   readerWait  readers the pending writer still waits for
\*   readerSem   wake-ups posted for readers blocked in RLock
\*   writerSem   wake-ups posted for the writer blocked in Lock
Unlocked ==
    [w |-> NoProc, readerCount |-> 0, readerWait |-> 0,
     readerSem |-> 0, writerSem |-> 0]

\* The locals of a goroutine that is not inside a write method's body.
NoFrame == [op |-> "none", key |-> Zero, val |-> Zero, ret |-> NoResult]

\* A goroutine that is not inside For.
NoLoop == [on |-> FALSE, left |-> {}]

InitCallers ==
    /\ rwLock = Unlocked
    /\ pc = [p \in Procs |-> "idle"]
    /\ frame = [p \in Procs |-> NoFrame]
    /\ loop = [p \in Procs |-> NoLoop]

Init ==
    /\ InitCallers
    /\ nm = NoMap
    /\ \E options \in OptionLists :
           /\ front = New(options).front
           /\ back = New(options).back
           /\ call = [op |-> "New", args |-> <<options>>]
           /\ ret = NoResult
           /\ old = [front |-> EmptyMap, back |-> EmptyMap]

----------------------------------------------------------------------------
\* Read operations, as functions of the current state.

GetFront(key) == Index(front, key)

GetBack(key) == Index(back, key)

Len == Cardinality(DOMAIN front)

----------------------------------------------------------------------------
\* Write operations.

Record(op, args) ==
    /\ call' = [op |-> op, args |-> args]
    /\ old' = [front |-> front, back |-> back]
    /\ UNCHANGED callers

\* A write method touches m.front and m.back only.
Called(op, args) ==
    /\ Record(op, args)
    /\ UNCHANGED nm

\* SetFront that looks only at m.front[key] and never at m.back[val].
SetFront_NoBackCheck(key, val) ==
    LET ok == Index(front, key)[2]
    IN  /\ Called("SetFront", <<key, val>>)
        /\ IF ok
           THEN /\ ret' = ErrKeyValExists
                /\ UNCHANGED <<front, back>>
           ELSE /\ front' = Put(front, key, val)
                /\ back' = Put(back, val, key)
                /\ ret' = Nil

\* SetFront whose first test is inverted ("ok" instead of "!ok"), so that it
\* rejects only when both the key and the value exist.
SetFront_NeedsBoth(key, val) ==
    LET ok1 == Index(front, key)[2]
        ok == IF ok1 THEN Index(back, val)[2] ELSE ok1
    IN  /\ Called("SetFront", <<key, val>>)
        /\ IF ok
           THEN /\ ret' = ErrKeyValExists
                /\ UNCHANGED <<front, back>>
           ELSE /\ front' = Put(front, key, val)
                /\ back' = Put(back, val, key)
                /\ ret' = Nil

\* SetFront that accepts the pair it already holds as a success.
SetFront_Idempotent(key, val) ==
    LET ok1 == Index(front, key)[2]
        ok == IF ~ok1 THEN Index(back, val)[2] ELSE ok1
    IN  /\ Called("SetFront", <<key, val>>)
        /\ IF ok /\ Index(front, key) # <<val, TRUE>>
           THEN /\ ret' = ErrKeyValExists
                /\ UNCHANGED <<front, back>>
           ELSE /\ front' = Put(front, key, val)
                /\ back' = Put(back, val, key)
                /\ ret' = Nil

\* SetFront that writes m.back[key] = val instead of m.back[val] = key.
SetFront_BackSwapped(key, val) ==
    LET ok1 == Index(front, key)[2]
        ok == IF ~ok1 THEN Index(back, val)[2] ELSE ok1
    IN  /\ Called("SetFront", <<key, val>>)
        /\ IF ok
           THEN /\ ret' = ErrKeyValExists
                /\ UNCHANGED <<front, back>>
           ELSE /\ front' = Put(front, key, val)
                /\ back' = Put(back, key, val)
                /\ ret' = Nil

SetFront(key, val) ==
    LET ok1 == Index(front, key)[2]
        ok == IF ~ok1 THEN Index(back, val)[2] ELSE ok1
    IN  /\ Called("SetFront", <<key, val>>)
        /\ IF ok
           THEN /\ ret' = ErrKeyValExists
                /\ UNCHANGED <<front, back>>
           ELSE /\ front' = Put(front, key, val)
                /\ back' = Put(back, val, key)
                /\ ret' = Nil

\* SetBack that looks up m.front[key] instead of m.front[val].
SetBack_ChecksFrontKey(key, val) ==
    LET ok1 == Index(back, key)[2]
        ok == IF ~ok1 THEN Index(front, key)[2] ELSE ok1
    IN  /\ Called("SetBack", <<key, val>>)
        /\ IF ok
           THEN /\ ret' = ErrKeyValExists
                /\ UNCHANGED <<front, back>>
           ELSE /\ back' = Put(back, key, val)
                /\ front' = Put(front, val, key)
                /\ ret' = Nil

\* SetBack that looks only at m.back[key] and never at m.front[val].
SetBack_NoFrontCheck(key, val) ==
    LET ok == Index(back, key)[2]
    IN  /\ Called("SetBack", <<key, val>>)
        /\ IF ok
           THEN /\ ret' = ErrKeyValExists
                /\ UNCHANGED <<front, back>>
           ELSE /\ back' = Put(back, key, val)
                /\ front' = Put(front, val, key)
                /\ ret' = Nil

\* SetBack that forgets the write to m.front.
SetBack_ForgetsFront(key, val) ==
    LET ok1 == Index(back, key)[2]
        ok == IF ~ok1 THEN Index(front, val)[2] ELSE ok1
    IN  /\ Called("SetBack", <<key, val>>)
        /\ IF ok
           THEN /\ ret' = ErrKeyValExists
                /\ UNCHANGED <<front, back>>
           ELSE /\ back' = Put(back, key, val)
                /\ UNCHANGED front
                /\ ret' = Nil

SetBack(key, val) ==
    LET ok1 == Index(back, key)[2]
        ok == IF ~ok1 THEN Index(front, val)[2] ELSE ok1
    IN  /\ Called("SetBack", <<key, val>>)
        /\ IF ok
           THEN /\ ret' = ErrKeyValExists
                /\ UNCHANGED <<front, back>>
           ELSE /\ back' = Put(back, key, val)
                /\ front' = Put(front, val, key)
                /\ ret' = Nil

\* DeleteFront that calls delete(m.back, key) instead of delete(m.back, v).
DeleteFront_DeletesBackKey(key) ==
    LET ok == Index(front, key)[2]
    IN  /\ Called("DeleteFront", <<key>>)
        /\ ret' = NoResult
        /\ IF ~ok
           THEN UNCHANGED <<front, back>>
           ELSE /\ front' = Delete(front, key)
                /\ back' = Delete(back, key)

\* DeleteFront without the "if !ok { return }" test: for an absent key v is
\* the zero value, and delete(m.back, v) removes the entry of the zero value.
DeleteFront_NoOkCheck(key) ==
    LET v == Index(front, key)[1]
    IN  /\ Called("DeleteFront", <<key>>)
        /\ ret' = NoResult
        /\ front' = Delete(front, key)
        /\ back' = Delete(back, v)

\* DeleteFront that forgets delete(m.back, v).
DeleteFront_OnlyFront(key) ==
    LET ok == Index(front, key)[2]
    IN  /\ Called("DeleteFront", <<key>>)
        /\ ret' = NoResult
        /\ IF ~ok
           THEN UNCHANGED <<front, back>>
           ELSE /\ front' = Delete(front, key)
                /\ UNCHANGED back

DeleteFront(key) ==
    LET v == Index(front, key)[1]
        ok == Index(front, key)[2]
    IN  /\ Called("DeleteFront", <<key>>)
        /\ ret' = NoResult
        /\ IF ~ok
           THEN UNCHANGED <<front, back>>
           ELSE /\ front' = Delete(front, key)
                /\ back' = Delete(back, v)

\* DeleteBack that forgets delete(m.front, v).
DeleteBack_OnlyBack(key) ==
    LET ok == Index(back, key)[2]
    IN  /\ Called("DeleteBack", <<key>>)
        /\ ret' = NoResult
        /\ IF ~ok
           THEN UNCHANGED <<front, back>>
           ELSE /\ back' = Delete(back, key)
                /\ UNCHANGED front

\* DeleteBack that calls delete(m.front, key) instead of delete(m.front, v).
DeleteBack_DeletesFrontKey(key) ==
    LET ok == Index(back, key)[2]
    IN  /\ Called("DeleteBack", <<key>>)
        /\ ret' = NoResult
        /\ IF ~ok
           THEN UNCHANGED <<front, back>>
           ELSE /\ back' = Delete(back, key)
                /\ front' = Delete(front, key)

DeleteBack(key) ==
    LET v == Index(back, key)[1]
        ok == Index(back, key)[2]
    IN  /\ Called("DeleteBack", <<key>>)
        /\ ret' = NoResult
        /\ IF ~ok
           THEN UNCHANGED <<front, back>>
           ELSE /\ back' = Delete(back, key)
                /\ front' = Delete(front, v)

Next ==
    \/ \E key \in FrontKeys, val \in BackKeys : SetFront(key, val)
    \/ \E key \in BackKeys, val \in FrontKeys : SetBack(key, val)
    \/ \E key \in FrontKeys : DeleteFront(key)
    \/ \E key \in BackKeys : DeleteBack(key)

Spec == Init /\ [][Next]_vars

----------------------------------------------------------------------------
\* Front() and Back(), and a caller that keeps the returned map.
\*
\* A Go map value is a reference.  nm.ref names the object the caller's
\* variable refers to: "nm", the object made by make() in Front or Back, or
\* "m.front" / "m.back", the maps of the BiMap itself; nm.val is the content
\* of the object "nm".

\* The content of the map the caller holds.
Deref ==
    CASE nm.ref = "m.front" -> front
      [] nm.ref = "m.back" -> back
      [] OTHER -> nm.val

\* for k, v := range m { nm[k] = v }, over the keys not yet visited.
RECURSIVE Range(_, _, _)
Range(m, keys, acc) ==
    IF keys = {}
    THEN acc
    ELSE LET k == CHOOSE x \in keys : TRUE
         IN  Range(m, keys \ {k}, Put(acc, k, m[k]))

\* Front that returns m.front itself instead of a copy.
Front_ReturnsLive ==
    /\ Record("Front", <<>>)
    /\ nm' = [ref |-> "m.front", val |-> EmptyMap]
    /\ ret' = "m.front"
    /\ UNCHANGED <<front, back>>

Front ==
    /\ Record("Front", <<>>)
    /\ nm' = [ref |-> "nm", val |-> Range(front, DOMAIN front, EmptyMap)]
    /\ ret' = "nm"
    /\ UNCHANGED <<front, back>>

Back ==
    /\ Record("Back", <<>>)
    /\ nm' = [ref |-> "nm", val |-> Range(back, DOMAIN back, EmptyMap)]
    /\ ret' = "nm"
    /\ UNCHANGED <<front, back>>

\* The caller's statement x[k] = v on the map x it was returned.
StoreNm(k, v) ==
    /\ nm.ref # "nil"
    /\ Record("x[k] = v", <<k, v>>)
    /\ ret' = NoResult
    /\ nm' = IF nm.ref = "nm" THEN [nm EXCEPT !.val = Put(nm.val, k, v)] ELSE nm
    /\ front' = IF nm.ref = "m.front" THEN Put(front, k, v) ELSE front
    /\ back' = IF nm.ref = "m.back" THEN Put(back, k, v) ELSE back

\* The caller's statement delete(x, k) on the map x it was returned.
DeleteNm(k) ==
    /\ nm.ref # "nil"
    /\ Record("delete(x, k)", <<k>>)
    /\ ret' = NoResult
    /\ nm' = IF nm.ref = "nm" THEN [nm EXCEPT !.val = Delete(nm.val, k)] ELSE nm
    /\ front' = IF nm.ref = "m.front" THEN Delete(front, k) ELSE front
    /\ back' = IF nm.ref = "m.back" THEN Delete(back, k) ELSE back

NextCopy ==
    \/ \E key \in Keys, val \in Keys : SetFront(key, val)
    \/ \E key \in Keys, val \in Keys : SetBack(key, val)
    \/ \E key \in Keys : DeleteFront(key)
    \/ \E key \in Keys : DeleteBack(key)
    \/ Front
    \/ Back
    \/ \E k \in Keys, v \in Keys : StoreNm(k, v)
    \/ \E k \in Keys : DeleteNm(k)

CopySpec == Init /\ [][NextCopy]_vars

----------------------------------------------------------------------------
\* Concurrent callers.
\*
\* Each goroutine of Procs calls the methods one after the other.  A call is
\* several steps: the call itself, the acquisition of m.rwLock, the body,
\* and the deferred release with the return.  The two map updates of a write
\* method are two steps.  All read methods begin with m.rwLock.RLock() and
\* all write methods with m.rwLock.Lock(); which method is running, and with
\* which arguments, shows in the model when its body first uses them.
\*
\* pc[p]:  "idle"      between two calls
\*         "RLock"     in a read method, at m.rwLock.RLock()
\*         "RLockWait" blocked inside RLock, a writer is pending
\*         "read"      in the body of a read method, read lock held
\*         "For"       in the range loop of For, read lock held
\*         "Lock"      in a write method, at m.rwLock.Lock()
\*         "LockWait"  blocked inside Lock, waiting for the readers to leave
\*         "write"     in the body of a write method, write lock held
\*         "store"     between the two map updates of a write method
\*         "Unlock"    at the return of a write method, its deferred
\*                     m.rwLock.Unlock() still to run

\* Where a method returns to: the visitor of For when the goroutine is
\* inside the range loop of For, the goroutine's own code otherwise.
Return(p) == IF loop[p].on THEN "For" ELSE "idle"

Goto(p, label) == pc' = [pc EXCEPT ![p] = label]

\* sync.RWMutex.RUnlock applied to the lock l.
RUnlocked(l) ==
    LET l1 == [l EXCEPT !.readerCount = @ - 1]
    IN  IF l.w # NoProc
        THEN LET l2 == [l1 EXCEPT !.readerWait = @ - 1]
             IN  IF l2.readerWait = 0
                 THEN [l2 EXCEPT !.writerSem = @ + 1]
                 ELSE l2
        ELSE l1

\* A read method that goes to its body without m.rwLock.RLock().
CallRead_NoRLock(p) ==
    /\ pc[p] = "idle"
    /\ Goto(p, "read")
    /\ UNCHANGED <<front, back, seqVars, rwLock, frame, loop>>

\* A goroutine calls a read method: GetFront, GetBack, Front, Back, Len, For
\* or String.
CallRead(p) ==
    /\ pc[p] = "idle"
    /\ Goto(p, "RLock")
    /\ UNCHANGED <<front, back, seqVars, rwLock, frame, loop>>

\* A write method that goes to its body without m.rwLock.Lock().
CallWrite_NoLock(p) ==
    /\ pc[p] = "idle"
    /\ Goto(p, "write")
    /\ UNCHANGED <<front, back, seqVars, rwLock, frame, loop>>

\* A goroutine calls a write method: SetFront, SetBack, DeleteFront or
\* DeleteBack.
CallWrite(p) ==
    /\ pc[p] = "idle"
    /\ Goto(p, "Lock")
    /\ UNCHANGED <<front, back, seqVars, rwLock, frame, loop>>

\* m.rwLock.RLock(): count the reader; block if a writer is pending.
RLock(p) ==
    /\ pc[p] = "RLock"
    /\ rwLock' = [rwLock EXCEPT !.readerCount = @ + 1]
    /\ Goto(p, IF rwLock.w # NoProc THEN "RLockWait" ELSE "read")
    /\ UNCHANGED <<front, back, seqVars, frame, loop>>

\* A reader blocked in RLock is woken by the writer's Unlock.
RLockWake(p) ==
    /\ pc[p] = "RLockWait"
    /\ rwLock.readerSem > 0
    /\ rwLock' = [rwLock EXCEPT !.readerSem = @ - 1]
    /\ Goto(p, "read")
    /\ UNCHANGED <<front, back, seqVars, frame, loop>>

\* The body of a read method other than For with a visitor that calls back,
\* then its deferred m.rwLock.RUnlock() and the return.
Read(p) ==
    /\ pc[p] = "read"
    /\ rwLock' = RUnlocked(rwLock)
    /\ Goto(p, Return(p))
    /\ UNCHANGED <<front, back, seqVars, frame, loop>>

\* m.rwLock.Lock(): take the writers' mutex, announce the writer to the
\* readers, and block while readers are active.
Lock(p) ==
    /\ pc[p] = "Lock"
    /\ rwLock.w = NoProc
    /\ LET r == rwLock.readerCount
           wait == IF r # 0 THEN rwLock.readerWait + r ELSE rwLock.readerWait
       IN  /\ rwLock' = [rwLock EXCEPT !.w = p, !.readerWait = wait]
           /\ Goto(p, IF r # 0 /\ wait # 0 THEN "LockWait" ELSE "write")
    /\ UNCHANGED <<front, back, seqVars, frame, loop>>

\* The writer blocked in Lock is woken by the last departing reader.
LockWake(p) ==
    /\ pc[p] = "LockWait"
    /\ rwLock.writerSem > 0
    /\ rwLock' = [rwLock EXCEPT !.writerSem = @ - 1]
    /\ Goto(p, "write")
    /\ UNCHANGED <<front, back, seqVars, frame, loop>>

\* The locals of a write method that has finished its body with result r.
Result(op, r) == [op |-> op, key |-> Zero, val |-> Zero, ret |-> r]

\* SetFront whose Unlock is not deferred but written once, before return nil:
\* return ErrKeyValExists leaves the method with the lock held.
SetFrontCheck_ReturnsLocked(p, key, val) ==
    LET ok1 == Index(front, key)[2]
        ok == IF ~ok1 THEN Index(back, val)[2] ELSE ok1
    IN  /\ pc[p] = "write"
        /\ IF ok
           THEN /\ call' = [op |-> "SetFront", args |-> <<>>]
                /\ ret' = ErrKeyValExists
                /\ Goto(p, Return(p))
                /\ UNCHANGED <<front, frame>>
           ELSE /\ front' = Put(front, key, val)
                /\ frame' = [frame EXCEPT ![p] =
                       [op |-> "SetFront", key |-> key, val |-> val, ret |-> NoResult]]
                /\ Goto(p, "store")
                /\ UNCHANGED <<call, ret>>
        /\ UNCHANGED <<back, old, nm, rwLock, loop>>

\* SetFront up to its first map update, m.front[key] = val.
SetFrontCheck(p, key, val) ==
    LET ok1 == Index(front, key)[2]
        ok == IF ~ok1 THEN Index(back, val)[2] ELSE ok1
    IN  /\ pc[p] = "write"
        /\ IF ok
           THEN /\ frame' = [frame EXCEPT ![p] = Result("SetFront", ErrKeyValExists)]
                /\ Goto(p, "Unlock")
                /\ UNCHANGED front
           ELSE /\ front' = Put(front, key, val)
                /\ frame' = [frame EXCEPT ![p] =
                       [op |-> "SetFront", key |-> key, val |-> val, ret |-> NoResult]]
                /\ Goto(p, "store")
        /\ UNCHANGED <<back, seqVars, rwLock, loop>>

\* SetFront from m.back[val] = key to return nil.
SetFrontStore(p) ==
    /\ pc[p] = "store"
    /\ frame[p].op = "SetFront"
    /\ back' = Put(back, frame[p].val, frame[p].key)
    /\ frame' = [frame EXCEPT ![p] = Result("SetFront", Nil)]
    /\ Goto(p, "Unlock")
    /\ UNCHANGED <<front, seqVars, rwLock, loop>>

\* SetBack up to its first map update, m.back[key] = val.
SetBackCheck(p, key, val) ==
    LET ok1 == Index(back, key)[2]
        ok == IF ~ok1 THEN Index(front, val)[2] ELSE ok1
    IN  /\ pc[p] = "write"
        /\ IF ok
           THEN /\ frame' = [frame EXCEPT ![p] = Result("SetBack", ErrKeyValExists)]
                /\ Goto(p, "Unlock")
                /\ UNCHANGED back
           ELSE /\ back' = Put(back, key, val)
                /\ frame' = [frame EXCEPT ![p] =
                       [op |-> "SetBack", key |-> key, val |-> val, ret |-> NoResult]]
                /\ Goto(p, "store")
        /\ UNCHANGED <<front, seqVars, rwLock, loop>>

\* SetBack from m.front[val] = key to return nil.
SetBackStore(p) ==
    /\ pc[p] = "store"
    /\ frame[p].op = "SetBack"
    /\ front' = Put(front, frame[p].val, frame[p].key)
    /\ frame' = [frame EXCEPT ![p] = Result("SetBack", Nil)]
    /\ Goto(p, "Unlock")
    /\ UNCHANGED <<back, seqVars, rwLock, loop>>

\* DeleteFront whose Unlock is not deferred but written once, at the end:
\* the early return on an absent key leaves the method with the lock held.
DeleteFrontCheck_ReturnsLocked(p, key) ==
    LET v == Index(front, key)[1]
        ok == Index(front, key)[2]
    IN  /\ pc[p] = "write"
        /\ IF ~ok
           THEN /\ Goto(p, Return(p))
                /\ UNCHANGED <<front, frame>>
           ELSE /\ front' = Delete(front, key)
                /\ frame' = [frame EXCEPT ![p] =
                       [op |-> "DeleteFront", key |-> key, val |-> v, ret |-> NoResult]]
                /\ Goto(p, "store")
        /\ UNCHANGED <<back, seqVars, rwLock, loop>>

\* DeleteFront up to its first map update, delete(m.front, key).
DeleteFrontCheck(p, key) ==
    LET v == Index(front, key)[1]
        ok == Index(front, key)[2]
    IN  /\ pc[p] = "write"
        /\ IF ~ok
           THEN /\ frame' = [frame EXCEPT ![p] = Result("DeleteFront", NoResult)]
                /\ Goto(p, "Unlock")
                /\ UNCHANGED front
           ELSE /\ front' = Delete(front, key)
                /\ frame' = [frame EXCEPT ![p] =
                       [op |-> "DeleteFront", key |-> key, val |-> v, ret |-> NoResult]]
                /\ Goto(p, "store")
        /\ UNCHANGED <<back, seqVars, rwLock, loop>>

\* DeleteFront's second map update, delete(m.back, v).
DeleteFrontStore(p) ==
    /\ pc[p] = "store"
    /\ frame[p].op = "DeleteFront"
    /\ back' = Delete(back, frame[p].val)
    /\ frame' = [frame EXCEPT ![p] = Result("DeleteFront", NoResult)]
    /\ Goto(p, "Unlock")
    /\ UNCHANGED <<front, seqVars, rwLock, loop>>

\* DeleteBack up to its first map update, delete(m.back, key).
DeleteBackCheck(p, key) ==
    LET v == Index(back, key)[1]
        ok == Index(back, key)[2]
    IN  /\ pc[p] = "write"
        /\ IF ~ok
           THEN /\ frame' = [frame EXCEPT ![p] = Result("DeleteBack", NoResult)]
                /\ Goto(p, "Unlock")
                /\ UNCHANGED back
           ELSE /\ back' = Delete(back, key)
                /\ frame' = [frame EXCEPT ![p] =
                       [op |-> "DeleteBack", key |-> key, val |-> v, ret |-> NoResult]]
                /\ Goto(p, "store")
        /\ UNCHANGED <<front, seqVars, rwLock, loop>>

\* DeleteBack's second map update, delete(m.front, v).
DeleteBackStore(p) ==
    /\ pc[p] = "store"
    /\ frame[p].op = "DeleteBack"
    /\ front' = Delete(front, frame[p].val)
    /\ frame' = [frame EXCEPT ![p] = Result("DeleteBack", NoResult)]
    /\ Goto(p, "Unlock")
    /\ UNCHANGED <<back, seqVars, rwLock, loop>>

\* The deferred m.rwLock.Unlock() of a write method, and its return: wake
\* the readers that blocked meanwhile, release the writers' mutex.  call and
\* ret keep the method that returned and its result.
Unlock(p) ==
    /\ pc[p] = "Unlock"
    /\ rwLock' = [rwLock EXCEPT !.readerSem = @ + rwLock.readerCount,
                                !.w = NoProc]
    /\ call' = [op |-> frame[p].op, args |-> <<>>]
    /\ ret' = frame[p].ret
    /\ frame' = [frame EXCEPT ![p] = NoFrame]
    /\ Goto(p, Return(p))
    /\ UNCHANGED <<front, back, old, nm, loop>>

\* The steps of goroutine p inside a call.
Step(p) ==
    \/ RLock(p)
    \/ RLockWake(p)
    \/ Read(p)
    \/ Lock(p)
    \/ LockWake(p)
    \/ \E key \in Keys, val \in Keys : SetFrontCheck(p, key, val)
    \/ SetFrontStore(p)
    \/ \E key \in Keys, val \in Keys : SetBackCheck(p, key, val)
    \/ SetBackStore(p)
    \/ \E key \in Keys : DeleteFrontCheck(p, key)
    \/ DeleteFrontStore(p)
    \/ \E key \in Keys : DeleteBackCheck(p, key)
    \/ DeleteBackStore(p)
    \/ Unlock(p)

NextLock ==
    \E p \in Procs :
        \/ CallRead(p)
        \/ CallWrite(p)
        \/ Step(p)

\* The map is made by New() with no option.
InitLock == Init /\ call.args[1] = <<>>

\* Every goroutine inside a call goes on: the Go scheduler runs every
\* runnable goroutine (weak fairness of its steps).  A goroutine waiting for
\* the writers' mutex or for a reader wake-up can lose it to another one
\* again and again, but not forever: sync.Mutex hands rw.w over to a starved
\* waiter and the runtime wakes semaphore waiters in turn (strong fairness
\* of Lock and RLockWake).  A goroutine takes its steps one at a time, so
\* strong fairness of Step(p) says both.
Fairness == \A p \in Procs : SF_vars(Step(p))

LockSpec == InitLock /\ [][NextLock]_vars /\ Fairness

----------------------------------------------------------------------------
\* For with a visitor fn that calls back into the same map.
\*
\* For holds the read lock over its whole range loop.  loop[p].left is the
\* set of keys of m.front the loop has still to pass to fn; m.front cannot
\* change meanwhile.  A method called by fn runs in the goroutine of For: it takes
\* the same steps as any call, and returns into the loop.

\* For that gives the read lock back before it runs the loop, instead of
\* deferring RUnlock to its return.
ForBegin_ReleasesLock(p) ==
    /\ pc[p] = "read"
    /\ ~loop[p].on
    /\ rwLock' = RUnlocked(rwLock)
    /\ loop' = [loop EXCEPT ![p] = [on |-> TRUE, left |-> DOMAIN front]]
    /\ Goto(p, "For")
    /\ UNCHANGED <<front, back, seqVars, frame>>

\* For, from the start of its body to the start of the range loop.
ForBegin(p) ==
    /\ pc[p] = "read"
    /\ ~loop[p].on
    /\ loop' = [loop EXCEPT ![p] = [on |-> TRUE, left |-> DOMAIN front]]
    /\ Goto(p, "For")
    /\ UNCHANGED <<front, back, seqVars, rwLock, frame>>

\* fn(f, b) for one more pair, with an fn that calls a read method of m:
\* GetFront, GetBack or Len.
VisitorCallsRead(p) ==
    /\ pc[p] = "For"
    /\ \E f \in loop[p].left :
           loop' = [loop EXCEPT ![p].left = @ \ {f}]
    /\ Goto(p, "RLock")
    /\ UNCHANGED <<front, back, seqVars, rwLock, frame>>

\* fn(f, b) for one more pair, with an fn that calls a write method of m:
\* SetFront, SetBack, DeleteFront or DeleteBack.
VisitorCallsWrite(p) ==
    /\ pc[p] = "For"
    /\ \E f \in loop[p].left :
           loop' = [loop EXCEPT ![p].left = @ \ {f}]
    /\ Goto(p, "Lock")
    /\ UNCHANGED <<front, back, seqVars, rwLock, frame>>

\* The range loop is over: the deferred m.rwLock.RUnlock(), and the return.
ForEnd(p) ==
    /\ pc[p] = "For"
    /\ loop[p].left = {}
    /\ rwLock' = RUnlocked(rwLock)
    /\ loop' = [loop EXCEPT ![p] = NoLoop]
    /\ Goto(p, "idle")
    /\ UNCHANGED <<front, back, seqVars, frame>>

\* The steps of goroutine p inside a call, For with a visitor that calls
\* read methods included.
StepRead(p) ==
    \/ Step(p)
    \/ ForBegin(p)
    \/ VisitorCallsRead(p)
    \/ ForEnd(p)

\* The same with a visitor that calls write methods.
StepWrite(p) ==
    \/ Step(p)
    \/ ForBegin(p)
    \/ VisitorCallsWrite(p)
    \/ ForEnd(p)

NextVisitRead == \E p \in Procs : CallRead(p) \/ CallWrite(p) \/ StepRead(p)

NextVisitWrite == \E p \in Procs : CallRead(p) \/ CallWrite(p) \/ StepWrite(p)

VisitReadSpec ==
    InitLock /\ [][NextVisitRead]_vars /\ \A p \in Procs : SF_vars(StepRead(p))

VisitWriteSpec ==
    InitLock /\ [][NextVisitWrite]_vars /\ \A p \in Procs : SF_vars(StepWrite(p))

----------------------------------------------------------------------------
\* Properties.

\* The maps are the same as when the last call was made.
MapsUnchanged == front = old.front /\ back = old.back

\* C1: in every state reachable from a new map by SetFront, SetBack,
\* DeleteFront and DeleteBack calls, front and back are exact inverses:
\* GetFront(f) = (b, true) if and only if GetBack(b) = (f, true).
C1_Inverse ==
    \A f \in FrontKeys, b \in BackKeys :
        (GetFront(f) = <<b, TRUE>>) <=> (GetBack(b) = <<f, TRUE>>)

\* A map of two pairs on which a SetBack has just been rejected.
C1_Witness ==
    /\ call.op = "SetBack"
    /\ ret = ErrKeyValExists
    /\ Len = 2

\* C2: New called with WithInitialMap(init) returns a map holding every pair
\* of init, with Len() equal to the number of entries of init; New with no
\* option returns an empty map.
C2_NewPrePopulated ==
    call.op = "New" =>
        LET options == call.args[1]
        IN  IF options = <<>>
            THEN Len = 0
            ELSE LET init == options[1]
                 IN  /\ \A k \in DOMAIN init : GetFront(k) = <<init[k], TRUE>>
                     /\ Len = Cardinality(DOMAIN init)

\* C3: SetFront(key, val) returns ErrKeyValExists exactly when key is a key
\* of front or val is a key of back, and then leaves both maps unchanged;
\* otherwise it returns nil.
C3_SetFrontCollision ==
    call.op = "SetFront" =>
        LET key == call.args[1]
            val == call.args[2]
            exists == key \in DOMAIN old.front \/ val \in DOMAIN old.back
        IN  /\ (ret = ErrKeyValExists) <=> exists
            /\ exists => MapsUnchanged
            /\ ~exists => ret = Nil

\* A SetFront rejected for its value alone: the key was free.
C3_Witness ==
    /\ call.op = "SetFront"
    /\ ret = ErrKeyValExists
    /\ call.args[1] \notin DOMAIN old.front
    /\ call.args[2] \in DOMAIN old.back

\* C4: SetBack(key, val) returns ErrKeyValExists exactly when key is a key of
\* back or val is a key of front, leaving both maps unchanged; otherwise it
\* returns nil and adds back[key] = val and front[val] = key.
C4_SetBackCollision ==
    call.op = "SetBack" =>
        LET key == call.args[1]
            val == call.args[2]
            exists == key \in DOMAIN old.back \/ val \in DOMAIN old.front
        IN  /\ (ret = ErrKeyValExists) <=> exists
            /\ exists => MapsUnchanged
            /\ ~exists => /\ ret = Nil
                          /\ back = Put(old.back, key, val)
                          /\ front = Put(old.front, val, key)

\* A SetBack rejected for its value alone: the key was free.
C4_Witness ==
    /\ call.op = "SetBack"
    /\ ret = ErrKeyValExists
    /\ call.args[1] \notin DOMAIN old.back
    /\ call.args[2] \in DOMAIN old.front

\* C5: setting a pair (k, v) the map already holds is rejected: SetFront(k, v)
\* and SetBack(v, k) return ErrKeyValExists and leave the map unchanged.
C5_SamePairRejected ==
    /\ (call.op = "SetFront" /\ Index(old.front, call.args[1]) = <<call.args[2], TRUE>>)
           => (ret = ErrKeyValExists /\ MapsUnchanged)
    /\ (call.op = "SetBack" /\ Index(old.front, call.args[2]) = <<call.args[1], TRUE>>)
           => (ret = ErrKeyValExists /\ MapsUnchanged)

\* SetFront(k, v) was called on a map in which front[k] = v.
C5_Witness ==
    /\ call.op = "SetFront"
    /\ Index(old.front, call.args[1]) = <<call.args[2], TRUE>>
    /\ Index(old.back, call.args[2]) = <<call.args[1], TRUE>>

\* C6: if SetFront(k, v) returns nil, then GetFront(k) = (v, true) and
\* GetBack(v) = (k, true) in the state it leaves.
C6_SetFrontThenGet ==
    (call.op = "SetFront" /\ ret = Nil) =>
        /\ GetFront(call.args[1]) = <<call.args[2], TRUE>>
        /\ GetBack(call.args[2]) = <<call.args[1], TRUE>>

\* A successful SetFront of a key and a value that differ, into a map that
\* was not empty.
C6_Witness ==
    /\ call.op = "SetFront"
    /\ ret = Nil
    /\ call.args[1] # call.args[2]
    /\ old.front # EmptyMap

\* C7: if SetBack(k, v) returns nil, then GetBack(k) = (v, true) and
\* GetFront(v) = (k, true) in the state it leaves.
C7_SetBackThenGet ==
    (call.op = "SetBack" /\ ret = Nil) =>
        /\ GetBack(call.args[1]) = <<call.args[2], TRUE>>
        /\ GetFront(call.args[2]) = <<call.args[1], TRUE>>

\* A successful SetBack of a key and a value that differ, into a map that
\* was not empty.
C7_Witness ==
    /\ call.op = "SetBack"
    /\ ret = Nil
    /\ call.args[1] # call.args[2]
    /\ old.back # EmptyMap

\* C8: DeleteFront(k) with front[k] = v before the call leaves GetFront(k)
\* and GetBack(v) both reporting not-found.
C8_DeleteFrontBothSides ==
    (call.op = "DeleteFront" /\ call.args[1] \in DOMAIN old.front) =>
        /\ GetFront(call.args[1])[2] = FALSE
        /\ GetBack(old.front[call.args[1]])[2] = FALSE

\* DeleteFront(k) removed a pair (k, v) with k # v, and k itself was a key
\* of back.
C8_Witness ==
    /\ call.op = "DeleteFront"
    /\ call.args[1] \in DOMAIN old.front
    /\ old.front[call.args[1]] # call.args[1]
    /\ call.args[1] \in DOMAIN old.back

\* C9: DeleteBack(k) with back[k] = v before the call leaves GetBack(k) and
\* GetFront(v) both reporting not-found.
C9_DeleteBackBothSides ==
    (call.op = "DeleteBack" /\ call.args[1] \in DOMAIN old.back) =>
        /\ GetBack(call.args[1])[2] = FALSE
        /\ GetFront(old.back[call.args[1]])[2] = FALSE

\* DeleteBack(k) removed a pair from a map of two pairs.
C9_Witness ==
    /\ call.op = "DeleteBack"
    /\ call.args[1] \in DOMAIN old.back
    /\ Cardinality(DOMAIN old.back) = 2

\* C10: deleting an absent key is a no-op: DeleteFront(k) with k not a key of
\* front, and DeleteBack(k) with k not a key of back, leave front, back and
\* Len() unchanged and report no error.
C10_DeleteAbsentNoOp ==
    /\ (call.op = "DeleteFront" /\ call.args[1] \notin DOMAIN old.front)
           => (MapsUnchanged /\ Len = Cardinality(DOMAIN old.front) /\ ret = NoResult)
    /\ (call.op = "DeleteBack" /\ call.args[1] \notin DOMAIN old.back)
           => (MapsUnchanged /\ Len = Cardinality(DOMAIN old.front) /\ ret = NoResult)

\* DeleteFront of an absent key on a map that holds the zero value as a key
\* of back.
C10_Witness ==
    /\ call.op = "DeleteFront"
    /\ call.args[1] \notin DOMAIN old.front
    /\ Zero \in DOMAIN old.back

\* C14: uniqueness in both directions: two distinct keys of front never
\* carry the same value, and two distinct keys of back never carry the same
\* value.
C14_Unique ==
    /\ \A f1 \in DOMAIN front, f2 \in DOMAIN front :
           f1 # f2 => front[f1] # front[f2]
    /\ \A b1 \in DOMAIN back, b2 \in DOMAIN back :
           b1 # b2 => back[b1] # back[b2]

\* A map of two pairs that has just refused a second key for a value it
\* holds.
C14_Witness ==
    /\ call.op = "SetBack"
    /\ ret = ErrKeyValExists
    /\ call.args[1] \notin DOMAIN old.back
    /\ call.args[2] \in DOMAIN old.front
    /\ Len = 2

\* The pairs of the map: (f, b) with front[f] = b and back[b] = f.
Pairs ==
    {pr \in FrontKeys \X BackKeys :
        GetFront(pr[1]) = <<pr[2], TRUE>> /\ GetBack(pr[2]) = <<pr[1], TRUE>>}

\* C16: Len() is the number of pairs, and it equals the number of entries of
\* front and the number of entries of back.
C16_LenIsPairCount ==
    /\ Len = Cardinality(Pairs)
    /\ Len = Cardinality(DOMAIN front)
    /\ Len = Cardinality(DOMAIN back)

\* A DeleteFront has just removed one pair of a map and left others.
C16_Witness ==
    /\ call.op = "DeleteFront"
    /\ call.args[1] \in DOMAIN old.front
    /\ Len >= 1

\* Every entry of m other than the one of key k is as it was in n.
SameExcept(m, n, k, K) == \A x \in K \ {k} : Index(m, x) = Index(n, x)

\* C19: a successful write changes exactly one pair.  After SetFront(k, v) or
\* SetBack(v, k) returns nil, every entry of front other than k and every
\* entry of back other than v is unchanged and Len() has grown by 1; after
\* DeleteFront(k) with front[k] = v, or DeleteBack(v) with back[v] = k, every
\* other entry of both maps is unchanged and Len() has shrunk by 1.
C19_OnePairChanged ==
    LET oldLen == Cardinality(DOMAIN old.front)
    IN  /\ (call.op = "SetFront" /\ ret = Nil) =>
               /\ SameExcept(front, old.front, call.args[1], FrontKeys)
               /\ SameExcept(back, old.back, call.args[2], BackKeys)
               /\ Len = oldLen + 1
        /\ (call.op = "SetBack" /\ ret = Nil) =>
               /\ SameExcept(front, old.front, call.args[2], FrontKeys)
               /\ SameExcept(back, old.back, call.args[1], BackKeys)
               /\ Len = oldLen + 1
        /\ (call.op = "DeleteFront" /\ call.args[1] \in DOMAIN old.front) =>
               /\ SameExcept(front, old.front, call.args[1], FrontKeys)
               /\ SameExcept(back, old.back, old.front[call.args[1]], BackKeys)
               /\ Len = oldLen - 1
        /\ (call.op = "DeleteBack" /\ call.args[1] \in DOMAIN old.back) =>
               /\ SameExcept(front, old.front, old.back[call.args[1]], FrontKeys)
               /\ SameExcept(back, old.back, call.args[1], BackKeys)
               /\ Len = oldLen - 1

\* DeleteBack(v) removed the pair (k, v), k # v, from a map in which v was
\* also a key of front, in another pair.
C19_Witness ==
    /\ call.op = "DeleteBack"
    /\ call.args[1] \in DOMAIN old.back
    /\ old.back[call.args[1]] # call.args[1]
    /\ call.args[1] \in DOMAIN old.front

\* The methods that write to the live map.
WriteOps == {"SetFront", "SetBack", "DeleteFront", "DeleteBack"}

\* C15: Front() and Back() return independent copies whose content is that of
\* front (resp. back) at the time of the call: a later change to the returned
\* map does not change what GetFront/GetBack return, and a later SetFront,
\* SetBack, DeleteFront or DeleteBack does not change a map returned earlier.
C15_CopyIndependent ==
    /\ [](call.op = "Front" => (Deref = old.front /\ MapsUnchanged))
    /\ [](call.op = "Back" => (Deref = old.back /\ MapsUnchanged))
    /\ [](call.op \in {"x[k] = v", "delete(x, k)"} => MapsUnchanged)
    /\ [][(nm.ref # "nil" /\ call'.op \in WriteOps) => Deref' = Deref]_vars

\* The caller holds the content front had before a DeleteFront that has
\* since removed a pair from the live map.
C15_Witness ==
    /\ call.op = "DeleteFront"
    /\ nm.ref # "nil"
    /\ Deref = old.front
    /\ front # old.front

\* The goroutines inside the body of a read method, read lock held.
ReadersInside == {p \in Procs : pc[p] \in {"read", "For"}}

\* The goroutines inside the body of a write method, write lock held.
WritersInside == {p \in Procs : pc[p] \in {"write", "store", "Unlock"}}

\* Every entry of one map has its inverse in the other.
NotTorn ==
    /\ \A f \in DOMAIN front : Index(back, front[f]) = <<f, TRUE>>
    /\ \A b \in DOMAIN back : Index(front, back[b]) = <<b, TRUE>>

\* C11: with every write made of two separate map updates under the lock, no
\* read operation observes a torn state: whenever a goroutine is in the body
\* of a read method, each map holds the inverse of every pair of the other.
C11_NoTornRead == (ReadersInside # {}) => NotTorn

\* A writer stands between its two map updates, the maps are torn, and a
\* reader is waiting in RLock.
C11_Witness ==
    \E p \in Procs, q \in Procs :
        /\ pc[p] = "store"
        /\ pc[q] = "RLockWait"
        /\ ~NotTorn

\* C12: at most one goroutine is inside the body of a write method, and while
\* one is, none is inside the body of a read method.
C12_MutualExclusion ==
    /\ Cardinality(WritersInside) <= 1
    /\ WritersInside # {} => ReadersInside = {}

\* A writer is inside while another goroutine has called a method and is
\* kept out.
C12_Witness ==
    \E p \in Procs, q \in Procs :
        /\ pc[p] = "write"
        /\ pc[q] \in {"RLockWait", "Lock"}

\* The read locks held or requested: RLock calls without their RUnlock.
ReadLocks == Cardinality({p \in Procs : pc[p] \in {"RLockWait", "read", "For"}})

\* C13: every operation releases the lock on every exit path: a goroutine
\* whose call has returned holds neither the write nor a read lock, and when
\* no goroutine is past the lock call of a method the lock is free for the
\* next caller.
C13_LockReleased ==
    /\ \A p \in Procs : pc[p] \in {"idle", "RLock", "Lock"} => rwLock.w # p
    /\ rwLock.readerCount = ReadLocks
    /\ (\A p \in Procs : pc[p] \in {"idle", "RLock", "Lock"}) => rwLock = Unlocked

\* The last call to return was a rejected SetFront, and the next caller
\* stands at the lock.
C13_Witness ==
    /\ call.op = "SetFront"
    /\ ret = ErrKeyValExists
    /\ \E p \in Procs :
           /\ pc[p] = "Lock"
           /\ \A q \in Procs \ {p} : pc[q] = "idle"

\* C18: with visitors that never call back into the map, the callers are
\* never all blocked, and under fair scheduling every call returns.
C18_NoDeadlock ==
    /\ []((\E p \in Procs : pc[p] # "idle") => (\E q \in Procs : ENABLED Step(q)))
    /\ \A p \in Procs : (pc[p] # "idle") ~> (pc[p] = "idle")

\* A writer blocked in Lock behind a reader that is inside.
C18_Witness ==
    \E p \in Procs, q \in Procs :
        /\ pc[p] = "LockWait"
        /\ pc[q] = "read"

\* The visitor of p's For has called a write method that has not returned.
VisitorInWrite(p) ==
    /\ loop[p].on
    /\ pc[p] \in {"Lock", "LockWait", "write", "store", "Unlock"}

\* C17: a visitor passed to For that calls a write method on the same map
\* deadlocks against itself: the write call never acquires the lock, because
\* For still holds the read lock, so neither the write call nor For returns.
C17_VisitorWriteDeadlocks ==
    /\ [](\A p \in Procs : VisitorInWrite(p) => pc[p] \in {"Lock", "LockWait"})
    /\ [][\A p \in Procs : VisitorInWrite(p) => VisitorInWrite(p)']_vars

\* The visitor's write call holds the writers' mutex and waits for the
\* readers to leave, its own For among them.
C17_Witness ==
    \E p \in Procs :
        /\ loop[p].on
        /\ pc[p] = "LockWait"
        /\ rwLock.w = p

\* The visitor of p's For is blocked in the RLock of a read method, with no
\* wake-up left for it.
VisitorReadBlocked(p) ==
    /\ loop[p].on
    /\ pc[p] = "RLockWait"
    /\ rwLock.readerSem = 0

\* C20, as claimed: a visitor that calls only read methods always returns,
\* also while other goroutines call write methods; its RLock never blocks
\* forever.  Whenever the visitor waits in RLock, some goroutine inside a call
\* can take a step.
C20_VisitorReadReturns ==
    \A p \in Procs :
        (loop[p].on /\ pc[p] = "RLockWait") => \E q \in Procs : ENABLED StepRead(q)

\* C20, amended: the visitor's RLock blocks only behind a write call of
\* another goroutine that waits in Lock for the readers to leave, and then it
\* stays blocked; with no write call waiting the visitor's read is not
\* blocked.
C20_BlockedOnlyByWriter ==
    /\ [](\A p \in Procs :
             VisitorReadBlocked(p) =>
                 \E q \in Procs \ {p} : rwLock.w = q /\ pc[q] = "LockWait")
    /\ [][\A p \in Procs : VisitorReadBlocked(p) => VisitorReadBlocked(p)']_vars

\* For holds the read lock, a writer waits for it in Lock, and the visitor
\* waits for the writer in RLock.
C20_Witness ==
    \E p \in Procs, q \in Procs :
        /\ VisitorReadBlocked(p)
        /\ pc[q] = "LockWait"

====
